---- MODULE Spec2Model ----
(***************************************************************************)
(* A model of the YouTube RAG assistant's core:                            *)
(*   - utils/chunker.py      build_chunks     (specification SpecChunker)  *)
(*   - utils/embedder.py     index_documents  (specification SpecIndex)    *)
(*   - utils/rag_pipeline.py ask, the memory  (specification SpecAsk)      *)
(* Strings are sequences of one-character strings so that strip() and      *)
(* split() are computed, not assumed.                                      *)
(***************************************************************************)
EXTENDS Integers, Sequences, FiniteSets, TLC

VARIABLES
    segments,        \* chunker.py:43   transcript["segments"]
    target_words,    \* chunker.py:17   argument of build_chunks
    overlap_words,   \* chunker.py:18   argument of build_chunks
    i,               \* chunker.py:49   0-based index of the next chunk's first candidate
    documents,       \* chunker.py:48   the chunks produced so far
    chunk_pc,        \* position of build_chunks: "start", "loop", "done"
    store,           \* embedder.py:41   the Chroma collection: entry -> number of copies
    idx_batch,       \* embedder.py:48   documents argument of the last index_documents call
    idx_before,      \* the collection as it was when the last call started
    idx_failed,      \* embedder.py:79   whether a dedup lookup of the last call raised
    idx_ever_failed, \* whether a dedup lookup of any call so far raised
    idx_outcome,     \* "none", "returned" or "raised": how the last call ended
    idx_calls,       \* number of index_documents calls made
    openai_api_key,  \* rag_pipeline.py:46   os.getenv("OPENAI_API_KEY", "")
    memory_store,    \* rag_pipeline.py:28   _MEMORY_STORE: session key -> exchanges
    appended,        \* the exchanges saved so far, in order, each with the
                     \* session_id argument it was saved under
    ask_before,      \* _MEMORY_STORE as it was when the last ask call started
    ask_last,        \* the last ask call: its arguments, what it did, its result
    cache,           \* transcript_fetcher.py:25, 167   CACHE_DIR: video_id -> cache file
    transcriptions,  \* video_id -> number of _transcribe_with_whisper calls made for it
    fetch_succeeded, \* the video ids for which a fetch_transcript call has returned
    fetch_calls,     \* number of fetch_transcript calls made
    fetch_last,      \* the last fetch_transcript call: its argument, what it did, its result
    total_seconds,   \* rag_pipeline.py:153   argument of _format_timestamp
    timestamp,       \* rag_pipeline.py:161-162   the string _format_timestamp returned
    format_pc,       \* position of _format_timestamp: "start", "done"
    race_memory,     \* rag_pipeline.py:28   _MEMORY_STORE shared by the threads
    race_session,    \* thread -> the session_id argument of its ask call
    race_sid,        \* rag_pipeline.py:81   thread -> its local sid
    race_pc          \* thread -> the statement of ask/_save_history it is at

chunkVars == <<segments, target_words, overlap_words, i, documents, chunk_pc>>

indexVars ==
    <<store, idx_batch, idx_before, idx_failed, idx_ever_failed, idx_outcome, idx_calls>>

askVars == <<openai_api_key, memory_store, appended, ask_before, ask_last>>

fetchVars == <<cache, transcriptions, fetch_succeeded, fetch_calls, fetch_last>>

formatVars == <<total_seconds, timestamp, format_pc>>

raceVars == <<race_memory, race_session, race_sid, race_pc>>

vars == <<chunkVars, indexVars, askVars, fetchVars, formatVars, raceVars>>

(***************************************************************************)
(* Bounds of the model.                                                    *)
(***************************************************************************)
MaxSegs == 5
MaxTarget == 4
MaxOverlap == 3
MaxIndexCalls == 2
MaxBatch == 3
MaxSaved == 6
MaxFetchCalls == 3
MaxSeconds == 36061
MaxNegative == 3601
MaxThreads == 2
MaxFairSegs == 4

(***************************************************************************)
(* Strings.                                                                *)
(***************************************************************************)
Max(a, b) == IF a >= b THEN a ELSE b

Min(a, b) == IF a <= b THEN a ELSE b

IsSpace(c) == c = " "

RECURSIVE LStrip(_)
LStrip(s) == IF s # <<>> /\ IsSpace(Head(s)) THEN LStrip(Tail(s)) ELSE s

RECURSIVE RStrip(_)
RStrip(s) ==
    IF s # <<>> /\ IsSpace(s[Len(s)]) THEN RStrip(SubSeq(s, 1, Len(s) - 1)) ELSE s

\* str.strip()
Strip(s) == RStrip(LStrip(s))

\* chunker.py:99-101: len(text.split()) if text else 0 -- the number of maximal
\* runs of non-space characters.
WordCount(text) ==
    Cardinality({k \in 1..Len(text) :
        /\ ~IsSpace(text[k])
        /\ (k = 1 \/ IsSpace(text[k - 1]))})

\* " ".join(parts)
RECURSIVE JoinSpace(_)
JoinSpace(parts) ==
    IF parts = <<>> THEN <<>>
    ELSE IF Len(parts) = 1 THEN parts[1]
    ELSE parts[1] \o <<" ">> \o JoinSpace(Tail(parts))

\* int(float(x)) of a time given in tenths of a second: truncation toward zero.
TruncSeconds(tenths) ==
    IF tenths >= 0 THEN tenths \div 10 ELSE -((-tenths) \div 10)

(***************************************************************************)
(* Inputs of build_chunks: segment texts and start times.                  *)
(***************************************************************************)
Texts == { <<>>, <<" ">>, <<" ", "a">>, <<"a", " ", "b">> }

\* Start times in tenths of a second, ordered by position; a gap below one
\* second makes neighbouring segments share a truncated start.
StartGaps == {7, 17}

SegmentsFor(texts, gap) ==
    [k \in 1..Len(texts) |-> [text |-> texts[k], start |-> (k - 1) * gap]]

TextSeqs == UNION {[1..n -> Texts] : n \in 0..MaxSegs}

\* chunker.py:57: (seg.get("text") or "").strip()
\* Variant: the text is taken as it is, not stripped.
SegTextUnstripped(seg) == seg.text

SegText(seg) == Strip(seg.text)

IsBlank(seg) == SegText(seg) = <<>>

(***************************************************************************)
(* build_chunks, one pass of the outer loop at a time.                     *)
(* A chunk's segments are kept as 0-based positions into segments (the     *)
(* code keeps references to the segment dicts).                            *)
(***************************************************************************)

\* chunker.py:55-62: the inner loop. Returns the moved i and chunk_segments.
RECURSIVE ScanChunk(_, _, _, _, _)
\* Variant: a blank segment ends the scan instead of being skipped.
ScanChunkStopAtBlank(segs, idx, cs, wc, t) ==
    IF idx + Len(cs) < Len(segs) /\ wc < t
    THEN LET p == idx + Len(cs)
             text == SegText(segs[p + 1])
         IN  IF text = <<>>
             THEN [i |-> idx, chunk_segments |-> cs]
             ELSE ScanChunk(segs, idx, Append(cs, p), wc + WordCount(text), t)
    ELSE [i |-> idx, chunk_segments |-> cs]

\* Variant: the scan goes on while the count has not passed the target.
ScanChunkCloseLate(segs, idx, cs, wc, t) ==
    IF idx + Len(cs) < Len(segs) /\ wc <= t
    THEN LET p == idx + Len(cs)
             text == SegText(segs[p + 1])
         IN  IF text = <<>>
             THEN ScanChunk(segs, idx + 1, cs, wc, t)
             ELSE ScanChunk(segs, idx, Append(cs, p), wc + WordCount(text), t)
    ELSE [i |-> idx, chunk_segments |-> cs]

ScanChunk(segs, idx, cs, wc, t) ==
    IF idx + Len(cs) < Len(segs) /\ wc < t
    THEN LET p == idx + Len(cs)
             text == SegText(segs[p + 1])
         IN  IF text = <<>>
             THEN ScanChunk(segs, idx + 1, cs, wc, t)
             ELSE ScanChunk(segs, idx, Append(cs, p), wc + WordCount(text), t)
    ELSE [i |-> idx, chunk_segments |-> cs]

\* chunker.py:85-92: the backward walk over the closed chunk.
RECURSIVE OverlapWalk(_, _, _, _, _)
OverlapWalk(segs, cs, overlap_start, overlap_count, o) ==
    IF overlap_start >= 0 /\ overlap_count < o
    THEN OverlapWalk(segs, cs, overlap_start - 1,
                     overlap_count + WordCount(SegText(segs[cs[overlap_start + 1] + 1])), o)
    ELSE overlap_start + 1

\* Variant: the walk ignores the overlap_words argument and uses a fixed overlap.
OverlapStartFixedOverlap(segs, cs, o) == OverlapWalk(segs, cs, Len(cs) - 1, 0, 3)

OverlapStart(segs, cs, o) == OverlapWalk(segs, cs, Len(cs) - 1, 0, o)

\* chunker.py:94: i += overlap_start if overlap_start > 0 else max(len(chunk_segments) - 1, 1)
\* Variant: no minimum of one segment.
AdvanceWithoutMinimum(segs, cs, o) ==
    LET overlap_start == OverlapStart(segs, cs, o)
    IN  IF overlap_start > 0 THEN overlap_start ELSE Len(cs) - 1

Advance(segs, cs, o) ==
    LET overlap_start == OverlapStart(segs, cs, o)
    IN  IF overlap_start > 0 THEN overlap_start ELSE Max(Len(cs) - 1, 1)

\* chunker.py:67-82: the Document of a chunk. seg_idx records which segments
\* the chunk was built from.
\* Variant: the start of the chunk's last segment.
StartTimeLast(segs, cs) == TruncSeconds(segs[cs[Len(cs)] + 1].start)

StartTime(segs, cs) == TruncSeconds(segs[cs[1] + 1].start)

MakeDocument(segs, cs) ==
    [ page_content |-> Strip(JoinSpace([k \in 1..Len(cs) |-> SegText(segs[cs[k] + 1])])),
      start_time   |-> StartTime(segs, cs),
      seg_idx      |-> cs ]

\* chunker.py:51-96 as a function: the documents returned from index idx on.
RECURSIVE BuildFrom(_, _, _, _, _)
BuildFrom(segs, t, o, idx, docs) ==
    IF idx < Len(segs)
    THEN LET sc == ScanChunk(segs, idx, <<>>, 0, t)
             cs == sc.chunk_segments
         IN  IF cs = <<>> THEN docs
             ELSE BuildFrom(segs, t, o, sc.i + Advance(segs, cs, o),
                            Append(docs, MakeDocument(segs, cs)))
    ELSE docs

\* chunker.py:15-96
BuildChunks(segs, t, o) == IF segs = <<>> THEN <<>> ELSE BuildFrom(segs, t, o, 0, <<>>)

\* chunker.py:45-46: if not segments: return []
ReturnNoSegments ==
    /\ chunk_pc = "start"
    /\ segments = <<>>
    /\ chunk_pc' = "done"
    /\ UNCHANGED <<segments, target_words, overlap_words, i, documents>>

\* chunker.py:48-49
EnterLoop ==
    /\ chunk_pc = "start"
    /\ segments # <<>>
    /\ chunk_pc' = "loop"
    /\ UNCHANGED <<segments, target_words, overlap_words, i, documents>>

\* chunker.py:51-94: one pass of the outer loop that closes a chunk.
ChunkPass ==
    /\ chunk_pc = "loop"
    /\ i < Len(segments)
    /\ \E sc \in {ScanChunk(segments, i, <<>>, 0, target_words)} :
          LET cs == sc.chunk_segments
          IN  /\ cs # <<>>
              /\ documents' = Append(documents, MakeDocument(segments, cs))
              /\ i' = sc.i + Advance(segments, cs, overlap_words)
    /\ UNCHANGED <<segments, target_words, overlap_words, chunk_pc>>

\* chunker.py:64-65: if not chunk_segments: break
BreakEmptyChunk ==
    /\ chunk_pc = "loop"
    /\ i < Len(segments)
    /\ LET sc == ScanChunk(segments, i, <<>>, 0, target_words)
       IN  /\ sc.chunk_segments = <<>>
           /\ i' = sc.i
    /\ chunk_pc' = "done"
    /\ UNCHANGED <<segments, target_words, overlap_words, documents>>

\* chunker.py:51, 96: the loop condition fails; return documents
ReturnDocuments ==
    /\ chunk_pc = "loop"
    /\ i >= Len(segments)
    /\ chunk_pc' = "done"
    /\ UNCHANGED <<segments, target_words, overlap_words, i, documents>>

(***************************************************************************)
(* index_documents (utils/embedder.py).                                    *)
(* A document is [has_id, video_id, n]: has_id says whether the metadata   *)
(* has a "video_id" key, video_id is its value, n tells the chunks of one  *)
(* video apart. The collection maps each document to its number of stored  *)
(* copies; a batch is a set of documents.                                  *)
(***************************************************************************)
Doc(has, vid, n) == [has_id |-> has, video_id |-> vid, n |-> n]

DocUniverse ==
    { Doc(TRUE, <<"a">>, 1), Doc(TRUE, <<"a">>, 2), Doc(TRUE, <<"b">>, 1),
      Doc(TRUE, <<" ", "a">>, 1), Doc(TRUE, <<>>, 1), Doc(TRUE, <<" ">>, 1),
      Doc(FALSE, <<>>, 1) }

Batches == {b \in SUBSET DocUniverse : Cardinality(b) <= MaxBatch}

EmptyStore == [d \in DocUniverse |-> 0]

\* embedder.py:63: if doc.metadata.get("video_id")
HasVideoId(d) == d.has_id /\ d.video_id # <<>>

\* embedder.py:61, 88: str(doc.metadata.get("video_id", "")).strip()
StrippedId(d) == Strip(IF d.has_id THEN d.video_id ELSE <<>>)

\* embedder.py:60-64
VideoIds(batch) == {StrippedId(d) : d \in {x \in batch : HasVideoId(x)}}

\* embedder.py:76-77: vectordb.get(where={"video_id": vid}) returns ids
GetWhere(st, vid) == {d \in DocUniverse : st[d] > 0 /\ d.has_id /\ d.video_id = vid}

\* embedder.py:71-80: the lookups that completed, over those video ids.
ExistingVideoIds(st, looked) == {vid \in looked : vid # <<>> /\ GetWhere(st, vid) # {}}

\* embedder.py:68, 100: vectordb.add_documents(docs)
AddDocuments(st, docs) == [d \in DocUniverse |-> IF d \in docs THEN st[d] + 1 ELSE st[d]]

\* embedder.py:82
VideosToIndex(st, batch, looked) == VideoIds(batch) \ ExistingVideoIds(st, looked)

\* embedder.py:87-89
DocsToAdd(st, batch, looked) ==
    {d \in batch : StrippedId(d) \in VideosToIndex(st, batch, looked)}

\* The lookups a call can have completed: all of them, or, when a lookup
\* raised, those made before it (the set is iterated in arbitrary order and
\* the empty id is passed over without a lookup).
LookedSets(batch) ==
    {looked \in SUBSET VideoIds(batch) :
        looked = VideoIds(batch) \/ \E f \in VideoIds(batch) \ looked : f # <<>>}

CanCall == idx_calls < MaxIndexCalls

Called(batch, failed, outcome) ==
    /\ idx_calls' = idx_calls + 1
    /\ idx_batch' = batch
    /\ idx_before' = store
    /\ idx_failed' = failed
    /\ idx_ever_failed' = (idx_ever_failed \/ failed)
    /\ idx_outcome' = outcome

\* embedder.py:55-56: if not documents: return
IndexEmptyBatch ==
    /\ CanCall
    /\ Called({}, FALSE, "returned")
    /\ UNCHANGED store

\* embedder.py:58: _get_vectorstore() raises (no credential, store cannot be opened)
IndexStoreUnavailable ==
    /\ CanCall
    /\ \E batch \in Batches :
        /\ batch # {}
        /\ Called(batch, FALSE, "raised")
        /\ UNCHANGED store

\* embedder.py:66-69: no document has a video_id; all are added
IndexWithoutVideoIds ==
    /\ CanCall
    /\ \E batch \in Batches :
        /\ batch # {}
        /\ VideoIds(batch) = {}
        /\ Called(batch, FALSE, "returned")
        /\ store' = AddDocuments(store, batch)

\* embedder.py:71-85: every video of the batch was found in the collection
IndexAllAlreadyIndexed ==
    /\ CanCall
    /\ \E batch \in Batches :
        \E looked \in LookedSets(batch) :
            /\ VideoIds(batch) # {}
            /\ VideosToIndex(store, batch, looked) = {}
            /\ Called(batch, looked # VideoIds(batch), "returned")
            /\ UNCHANGED store

\* embedder.py:71-100: the documents of the videos to index are added
IndexNewVideos ==
    /\ CanCall
    /\ \E batch \in Batches :
        \E looked \in LookedSets(batch) :
            /\ VideoIds(batch) # {}
            /\ VideosToIndex(store, batch, looked) # {}
            /\ Called(batch, looked # VideoIds(batch), "returned")
            /\ store' = IF DocsToAdd(store, batch, looked) = {} THEN store
                        ELSE AddDocuments(store, DocsToAdd(store, batch, looked))

(***************************************************************************)
(* ask and the conversation memory (utils/rag_pipeline.py).                *)
(* An exchange is <<question, answer>>. A formatted history is the         *)
(* sequence of its lines (the code joins them with "\n"); the empty        *)
(* string is <<>>.                                                         *)
(***************************************************************************)
DefaultSession == <<"d", "e", "f", "a", "u", "l", "t">>

SessionIds == { <<" ">>, DefaultSession, <<" ", "s">> }

Questions == { <<>>, <<" ">>, <<" ", "q">> }

ApiKeys == { <<>>, <<" ">>, <<"k">> }

\* rag_pipeline.py:65, 81: (session_id or "").strip() or "default"
SessionKey(session_id) ==
    IF Strip(session_id) = <<>> THEN DefaultSession ELSE Strip(session_id)

\* rag_pipeline.py:68: exchanges[-5:]
\* Variant: the list is not cut.
LastExchangesUncut(exchanges) == exchanges

LastExchanges(exchanges) ==
    SubSeq(exchanges, Max(1, Len(exchanges) - 5 + 1), Len(exchanges))

HumanLine(q) == <<"Human: ", q>>

AssistantLine(a) == <<"Assistant: ", a>>

\* rag_pipeline.py:71-75: two lines per exchange, oldest first
RECURSIVE FormatExchanges(_)
FormatExchanges(exchanges) ==
    IF exchanges = <<>> THEN <<>>
    ELSE <<HumanLine(exchanges[1][1]), AssistantLine(exchanges[1][2])>>
            \o FormatExchanges(Tail(exchanges))

\* rag_pipeline.py:62-75: _get_history
GetHistory(mem, session_id) ==
    LET sid == SessionKey(session_id)
        exchanges == LastExchanges(IF sid \in DOMAIN mem THEN mem[sid] ELSE <<>>)
    IN  IF exchanges = <<>> THEN <<>> ELSE FormatExchanges(exchanges)

\* Variant: every exchange goes to the "default" list, whatever the session.
SaveHistorySharedList(mem, session_id, question, answer) ==
    [k \in DOMAIN mem \cup {DefaultSession} |->
        IF k = DefaultSession
        THEN Append(IF k \in DOMAIN mem THEN mem[k] ELSE <<>>, <<question, answer>>)
        ELSE mem[k]]

\* rag_pipeline.py:78-84: _save_history
SaveHistory(mem, session_id, question, answer) ==
    LET sid == SessionKey(session_id)
        created == IF sid \in DOMAIN mem THEN mem ELSE (sid :> <<>>) @@ mem
    IN  [created EXCEPT ![sid] = Append(@, <<question, answer>>)]

\* The strings ask returns.
PleaseEnterAQuestion == <<"Please enter a question.">>

MissingApiKey ==
    <<"Missing OPENAI_API_KEY. Add it to your .env file and restart the app.">>

\* rag_pipeline.py:59
SorryMessage(exc) == <<"Sorry - I ran into an error while answering that.", exc>>

\* The language model's answer to the n-th saved exchange: answers are taken
\* to be all different, so that an exchange is told by its answer.
AnswerText(n) == <<"answer", ToString(n)>>

NoMemory == <<>>

NotCalled ==
    [ called |-> FALSE, question |-> <<>>, session_id |-> <<>>, returned |-> FALSE,
      text |-> <<>>, read_history |-> FALSE, chat_history |-> <<>>,
      opened_store |-> FALSE, queried |-> FALSE, generated |-> FALSE, saved |-> FALSE ]

\* Variant: the question is not stripped before the test.
IsBlankQuestionUnstripped(question) == question = <<>>

\* rag_pipeline.py:42-43: q = (question or "").strip(); if not q
IsBlankQuestion(question) == Strip(question) = <<>>

\* rag_pipeline.py:46-47: api_key = os.getenv("OPENAI_API_KEY", "").strip(); if not api_key
HasApiKey == Strip(openai_api_key) # <<>>

\* What every ask call records.
Asked(question, session_id) ==
    [NotCalled EXCEPT !.called = TRUE, !.question = question, !.session_id = session_id]

\* rag_pipeline.py:42-44: blank question
AskBlankQuestion ==
    \E question \in Questions, session_id \in SessionIds :
        /\ IsBlankQuestion(question)
        /\ ask_last' = [Asked(question, session_id) EXCEPT
                            !.returned = TRUE, !.text = PleaseEnterAQuestion]
        /\ ask_before' = memory_store
        /\ UNCHANGED <<openai_api_key, memory_store, appended>>

\* rag_pipeline.py:46-48: no credential
AskMissingApiKey ==
    \E question \in Questions, session_id \in SessionIds :
        /\ ~IsBlankQuestion(question)
        /\ ~HasApiKey
        /\ ask_last' = [Asked(question, session_id) EXCEPT
                            !.returned = TRUE, !.text = MissingApiKey]
        /\ ask_before' = memory_store
        /\ UNCHANGED <<openai_api_key, memory_store, appended>>

\* rag_pipeline.py:50-51: history is read, then _build_rag_chain() raises
\* (embedder.get_retriever cannot open the store, or the model client cannot
\* be built); the call is outside the try block.
AskBuildFails ==
    \E question \in Questions, session_id \in SessionIds :
        /\ ~IsBlankQuestion(question)
        /\ HasApiKey
        /\ ask_last' = [Asked(question, session_id) EXCEPT
                            !.read_history = TRUE,
                            !.chat_history = GetHistory(memory_store, session_id),
                            !.returned = FALSE, !.text = <<"BuildError">>]
        /\ ask_before' = memory_store
        /\ UNCHANGED <<openai_api_key, memory_store, appended>>

\* rag_pipeline.py:53-59, 117-119: the retrieval query raises inside invoke
AskRetrievalFails ==
    \E question \in Questions, session_id \in SessionIds :
        /\ ~IsBlankQuestion(question)
        /\ HasApiKey
        /\ ask_last' = [Asked(question, session_id) EXCEPT
                            !.read_history = TRUE,
                            !.chat_history = GetHistory(memory_store, session_id),
                            !.opened_store = TRUE, !.queried = TRUE,
                            !.returned = TRUE, !.text = SorryMessage("RetrievalError")]
        /\ ask_before' = memory_store
        /\ UNCHANGED <<openai_api_key, memory_store, appended>>

\* Variant: the exchange is saved although the language-model call raised.
AskGenerationFailsButSaves ==
    \E question \in Questions, session_id \in SessionIds :
        /\ ~IsBlankQuestion(question)
        /\ HasApiKey
        /\ ask_last' = [Asked(question, session_id) EXCEPT
                            !.read_history = TRUE,
                            !.chat_history = GetHistory(memory_store, session_id),
                            !.opened_store = TRUE, !.queried = TRUE, !.generated = TRUE,
                            !.returned = TRUE, !.text = SorryMessage("GenerationError")]
        /\ ask_before' = memory_store
        /\ memory_store' = SaveHistory(memory_store, session_id, Strip(question),
                                       SorryMessage("GenerationError"))
        /\ UNCHANGED <<openai_api_key, appended>>

\* rag_pipeline.py:53-59, 121-126: the language-model call raises inside invoke
AskGenerationFails ==
    \E question \in Questions, session_id \in SessionIds :
        /\ ~IsBlankQuestion(question)
        /\ HasApiKey
        /\ ask_last' = [Asked(question, session_id) EXCEPT
                            !.read_history = TRUE,
                            !.chat_history = GetHistory(memory_store, session_id),
                            !.opened_store = TRUE, !.queried = TRUE, !.generated = TRUE,
                            !.returned = TRUE, !.text = SorryMessage("GenerationError")]
        /\ ask_before' = memory_store
        /\ UNCHANGED <<openai_api_key, memory_store, appended>>

\* rag_pipeline.py:50-56: the chain answers; the exchange is saved
AskAnswered ==
    /\ Len(appended) < MaxSaved
    /\ \E question \in Questions, session_id \in SessionIds :
        LET q == Strip(question)
            answer == AnswerText(Len(appended) + 1)
        IN  /\ ~IsBlankQuestion(question)
            /\ HasApiKey
            /\ ask_last' = [Asked(question, session_id) EXCEPT
                                !.read_history = TRUE,
                                !.chat_history = GetHistory(memory_store, session_id),
                                !.opened_store = TRUE, !.queried = TRUE, !.generated = TRUE,
                                !.saved = TRUE,
                                !.returned = TRUE, !.text = answer]
            /\ ask_before' = memory_store
            /\ memory_store' = SaveHistory(memory_store, session_id, q, answer)
            /\ appended' = Append(appended, [session_id |-> session_id, q |-> q, a |-> answer])
            /\ UNCHANGED openai_api_key

(***************************************************************************)
(* fetch_transcript and the transcript cache (utils/transcript_fetcher.py).*)
(* A video id stands for an 11-character identifier; "x" stands for a      *)
(* candidate that is not one. A URL is kept by the parts the parser looks  *)
(* at: the host, the path and the v= query parameter; a value without a    *)
(* scheme has no host and its whole text as path_id.                       *)
(***************************************************************************)
FetchIds == {"A", "B"}

Url(blank, host, path_kind, path_id, v) ==
    [blank |-> blank, host |-> host, path_kind |-> path_kind, path_id |-> path_id, v |-> v]

Urls ==
    { Url(TRUE, "", "", "", ""),
      Url(FALSE, "", "", "A", ""),
      Url(FALSE, "", "", "B", ""),
      Url(FALSE, "", "", "x", ""),
      Url(FALSE, "youtu.be", "id", "A", ""),
      Url(FALSE, "www.youtube.com", "watch", "", "A"),
      Url(FALSE, "www.youtube.com", "watch", "", "B"),
      Url(FALSE, "www.youtube.com", "watch", "", "x"),
      Url(FALSE, "www.youtube.com", "shorts", "A", ""),
      Url(FALSE, "www.youtube.com", "embed", "B", ""),
      Url(FALSE, "www.google.com", "", "", ""),
      Url(FALSE, "www.google.com", "", "", "A") }

\* transcript_fetcher.py:117, 162: re.fullmatch(r"[A-Za-z0-9_-]{11}", candidate)
IsVideoId(candidate) == candidate \in FetchIds

NoVideoId == [ok |-> FALSE, video_id |-> ""]

\* transcript_fetcher.py:161-164: _validate_video_id
ValidateVideoId(candidate) ==
    IF IsVideoId(candidate) THEN [ok |-> TRUE, video_id |-> candidate] ELSE NoVideoId

\* transcript_fetcher.py:101-158: extract_video_id; ok = FALSE is ValueError.
ExtractVideoId(u) ==
    IF u.blank THEN NoVideoId
    ELSE IF u.host = "" /\ IsVideoId(u.path_id) THEN [ok |-> TRUE, video_id |-> u.path_id]
    ELSE IF u.host = "youtu.be" THEN ValidateVideoId(u.path_id)
    ELSE IF u.host = "www.youtube.com" /\ u.path_kind = "watch" THEN ValidateVideoId(u.v)
    ELSE IF /\ u.host = "www.youtube.com"
            /\ u.path_kind \in {"shorts", "embed"}
            /\ IsVideoId(u.path_id)
         THEN [ok |-> TRUE, video_id |-> u.path_id]
    ELSE IF u.v # "" THEN ValidateVideoId(u.v)
    ELSE NoVideoId

\* A cache file: absent, holding part of a JSON document, or holding a record.
NoRecord == [title |-> "", take |-> 0]

AbsentFile == [file |-> "absent", record |-> NoRecord]

PartialFile == [file |-> "partial", record |-> NoRecord]

ValidFile(record) == [file |-> "valid", record |-> record]

EmptyCache == [v \in FetchIds |-> AbsentFile]

\* transcript_fetcher.py:171-183: _load_cached; found = FALSE is None. A file
\* that does not parse is a miss.
LoadCached(c, video_id) ==
    IF c[video_id].file = "valid"
    THEN [found |-> TRUE, record |-> c[video_id].record]
    ELSE [found |-> FALSE, record |-> NoRecord]

\* transcript_fetcher.py:186-189: _save_cached. path.open("w") creates or
\* truncates the file and json.dump writes it piece by piece, so the call
\* ends in one of three ways: open raised and the file is as it was, dump
\* raised and the file holds part of the document, or the record is written.
SaveCached(c, video_id, record, how) ==
    IF how = "written" THEN [c EXCEPT ![video_id] = ValidFile(record)]
    ELSE IF how = "dump raised" THEN [c EXCEPT ![video_id] = PartialFile]
    ELSE c

\* transcript_fetcher.py:192-208: _fetch_video_title never raises.
Titles == {"T", "Untitled video"}

NoFetch ==
    [ called |-> FALSE, url |-> Url(TRUE, "", "", "", ""), video_id |-> "",
      had_succeeded |-> FALSE, cache_before |-> EmptyCache,
      title_fetched |-> FALSE, downloaded |-> FALSE, transcribed |-> FALSE,
      outcome |-> "none", result |-> NoRecord ]

CanFetch == fetch_calls < MaxFetchCalls

\* What every fetch_transcript call records.
Fetched(u) ==
    [NoFetch EXCEPT !.called = TRUE, !.url = u,
                    !.video_id = ExtractVideoId(u).video_id,
                    !.had_succeeded = (ExtractVideoId(u).video_id \in fetch_succeeded),
                    !.cache_before = cache]

\* The number of transcriptions made so far, which tells the transcripts apart.
Takes == transcriptions["A"] + transcriptions["B"]

\* transcript_fetcher.py:67: extract_video_id raises ValueError
FetchBadUrl ==
    /\ CanFetch
    /\ \E u \in Urls :
        /\ ~ExtractVideoId(u).ok
        /\ fetch_last' = [Fetched(u) EXCEPT !.outcome = "raised"]
    /\ fetch_calls' = fetch_calls + 1
    /\ UNCHANGED <<cache, transcriptions, fetch_succeeded>>

\* transcript_fetcher.py:70-72: the cached record is returned
FetchCacheHit ==
    /\ CanFetch
    /\ \E u \in Urls :
        LET vid == ExtractVideoId(u).video_id
        IN  /\ ExtractVideoId(u).ok
            /\ LoadCached(cache, vid).found
            /\ fetch_last' = [Fetched(u) EXCEPT !.outcome = "returned",
                                                !.result = LoadCached(cache, vid).record]
            /\ fetch_succeeded' = fetch_succeeded \cup {vid}
    /\ fetch_calls' = fetch_calls + 1
    /\ UNCHANGED <<cache, transcriptions>>

\* transcript_fetcher.py:74-78, 89-92: _download_audio raises
FetchDownloadFails ==
    /\ CanFetch
    /\ \E u \in Urls :
        LET vid == ExtractVideoId(u).video_id
        IN  /\ ExtractVideoId(u).ok
            /\ ~LoadCached(cache, vid).found
            /\ fetch_last' = [Fetched(u) EXCEPT !.title_fetched = TRUE, !.downloaded = TRUE,
                                                !.outcome = "raised"]
    /\ fetch_calls' = fetch_calls + 1
    /\ UNCHANGED <<cache, transcriptions, fetch_succeeded>>

\* transcript_fetcher.py:79, 89-92: _transcribe_with_whisper raises (no
\* credential, the request fails, no usable segment)
FetchTranscriptionFails ==
    /\ CanFetch
    /\ \E u \in Urls :
        LET vid == ExtractVideoId(u).video_id
        IN  /\ ExtractVideoId(u).ok
            /\ ~LoadCached(cache, vid).found
            /\ fetch_last' = [Fetched(u) EXCEPT !.title_fetched = TRUE, !.downloaded = TRUE,
                                                !.transcribed = TRUE, !.outcome = "raised"]
            /\ transcriptions' = [transcriptions EXCEPT ![vid] = @ + 1]
    /\ fetch_calls' = fetch_calls + 1
    /\ UNCHANGED <<cache, fetch_succeeded>>

\* transcript_fetcher.py:79-92: the transcript is made and _save_cached raises
FetchSaveFails ==
    /\ CanFetch
    /\ \E u \in Urls, title \in Titles, how \in {"open raised", "dump raised"} :
        LET vid == ExtractVideoId(u).video_id
            record == [title |-> title, take |-> Takes + 1]
        IN  /\ ExtractVideoId(u).ok
            /\ ~LoadCached(cache, vid).found
            /\ fetch_last' = [Fetched(u) EXCEPT !.title_fetched = TRUE, !.downloaded = TRUE,
                                                !.transcribed = TRUE, !.outcome = "raised"]
            /\ transcriptions' = [transcriptions EXCEPT ![vid] = @ + 1]
            /\ cache' = SaveCached(cache, vid, record, how)
    /\ fetch_calls' = fetch_calls + 1
    /\ UNCHANGED fetch_succeeded

\* transcript_fetcher.py:74-88: the transcript is made, cached and returned
FetchSucceeds ==
    /\ CanFetch
    /\ \E u \in Urls, title \in Titles :
        LET vid == ExtractVideoId(u).video_id
            record == [title |-> title, take |-> Takes + 1]
        IN  /\ ExtractVideoId(u).ok
            /\ ~LoadCached(cache, vid).found
            /\ fetch_last' = [Fetched(u) EXCEPT !.title_fetched = TRUE, !.downloaded = TRUE,
                                                !.transcribed = TRUE, !.outcome = "returned",
                                                !.result = record]
            /\ transcriptions' = [transcriptions EXCEPT ![vid] = @ + 1]
            /\ cache' = SaveCached(cache, vid, record, "written")
            /\ fetch_succeeded' = fetch_succeeded \cup {vid}
    /\ fetch_calls' = fetch_calls + 1

(***************************************************************************)
(* _format_timestamp (utils/rag_pipeline.py). The returned string is kept  *)
(* as the sequence of its characters.                                      *)
(***************************************************************************)
\* rag_pipeline.py:156: max(0, int(total_seconds))
\* Variant: the argument is not clamped.
ClampSecondsUnclamped(n) == n

ClampSeconds(n) == Max(0, n)

\* str(n) for n >= 0: the decimal digits, most significant first.
RECURSIVE DecimalDigits(_)
DecimalDigits(n) ==
    IF n < 10 THEN <<ToString(n)>> ELSE Append(DecimalDigits(n \div 10), ToString(n % 10))

\* f"{n:02d}": at least two characters, padded with "0" on the left; the
\* sign of a negative number comes first.
TwoDigits(n) ==
    IF n < 0 THEN <<"-">> \o DecimalDigits(-n)
    ELSE IF n < 10 THEN <<"0">> \o DecimalDigits(n)
    ELSE DecimalDigits(n)

\* rag_pipeline.py:153-162: //, % are floor division and its remainder.
FormatTimestamp(n) ==
    LET s == ClampSeconds(n)
        h == s \div 3600
        m == (s % 3600) \div 60
        sec == s % 60
    IN  IF h > 0
        THEN DecimalDigits(h) \o <<":">> \o TwoDigits(m) \o <<":">> \o TwoDigits(sec)
        ELSE TwoDigits(m) \o <<":">> \o TwoDigits(sec)

\* rag_pipeline.py:153-162
FormatTimestampCall ==
    /\ format_pc = "start"
    /\ timestamp' = FormatTimestamp(total_seconds)
    /\ format_pc' = "done"
    /\ UNCHANGED total_seconds

(***************************************************************************)
(* ask calls running in several threads on the shared _MEMORY_STORE        *)
(* (utils/rag_pipeline.py), one statement of _save_history at a time.      *)
(* Each thread asks one question that is answered; its exchange is         *)
(* <<question, answer>> with the thread's number in the answer.            *)
(***************************************************************************)
Threads == 1..MaxThreads

RaceQuestion == <<"q">>

RaceExchange(t) == <<RaceQuestion, AnswerText(t)>>

\* rag_pipeline.py:54-55: invoke returned the answer; _save_history is
\* entered and line 81 sets sid
RaceNormalise(t) ==
    /\ race_pc[t] = "invoke"
    /\ race_sid' = [race_sid EXCEPT ![t] = SessionKey(race_session[t])]
    /\ race_pc' = [race_pc EXCEPT ![t] = "check"]
    /\ UNCHANGED <<race_memory, race_session>>

\* rag_pipeline.py:82: if sid not in _MEMORY_STORE
RaceCheck(t) ==
    /\ race_pc[t] = "check"
    /\ race_pc' = [race_pc EXCEPT ![t] =
                      IF race_sid[t] \in DOMAIN race_memory THEN "append" ELSE "create"]
    /\ UNCHANGED <<race_memory, race_session, race_sid>>

\* rag_pipeline.py:83: _MEMORY_STORE[sid] = []
RaceCreate(t) ==
    /\ race_pc[t] = "create"
    /\ race_memory' = (race_sid[t] :> <<>>) @@ race_memory
    /\ race_pc' = [race_pc EXCEPT ![t] = "append"]
    /\ UNCHANGED <<race_session, race_sid>>

\* rag_pipeline.py:84: _MEMORY_STORE[sid].append((question, answer))
RaceAppend(t) ==
    /\ race_pc[t] = "append"
    /\ race_memory' = [race_memory EXCEPT ![race_sid[t]] = Append(@, RaceExchange(t))]
    /\ race_pc' = [race_pc EXCEPT ![t] = "returned"]
    /\ UNCHANGED <<race_session, race_sid>>

(***************************************************************************)
(* The specifications. build_chunks, index_documents and ask are checked   *)
(* each on its own: a specification moves the variables of one of them and *)
(* holds the others at rest.                                               *)
(***************************************************************************)

ChunkIdle ==
    /\ segments = <<>>
    /\ target_words = 0
    /\ overlap_words = 0
    /\ i = 0
    /\ documents = <<>>
    /\ chunk_pc = "start"

IndexIdle ==
    /\ store = EmptyStore
    /\ idx_batch = {}
    /\ idx_before = EmptyStore
    /\ idx_failed = FALSE
    /\ idx_ever_failed = FALSE
    /\ idx_outcome = "none"
    /\ idx_calls = 0

AskIdle ==
    /\ openai_api_key = <<"k">>
    /\ memory_store = NoMemory
    /\ appended = <<>>
    /\ ask_before = NoMemory
    /\ ask_last = NotCalled

FetchIdle ==
    /\ cache = EmptyCache
    /\ transcriptions = [v \in FetchIds |-> 0]
    /\ fetch_succeeded = {}
    /\ fetch_calls = 0
    /\ fetch_last = NoFetch

FormatIdle ==
    /\ total_seconds = 0
    /\ timestamp = <<>>
    /\ format_pc = "start"

RaceIdle ==
    /\ race_memory = NoMemory
    /\ race_session = <<>>
    /\ race_sid = <<>>
    /\ race_pc = <<>>

ChunkInit ==
    /\ IndexIdle
    /\ AskIdle
    /\ FetchIdle
    /\ FormatIdle
    /\ RaceIdle
    /\ \E texts \in TextSeqs, gap \in StartGaps : segments = SegmentsFor(texts, gap)
    /\ target_words \in 0..MaxTarget
    /\ overlap_words \in 0..MaxOverlap
    /\ i = 0
    /\ documents = <<>>
    /\ chunk_pc = "start"

ChunkNext ==
    \/ ReturnNoSegments /\ UNCHANGED <<indexVars, askVars, fetchVars, formatVars, raceVars>>
    \/ EnterLoop /\ UNCHANGED <<indexVars, askVars, fetchVars, formatVars, raceVars>>
    \/ ChunkPass /\ UNCHANGED <<indexVars, askVars, fetchVars, formatVars, raceVars>>
    \/ BreakEmptyChunk /\ UNCHANGED <<indexVars, askVars, fetchVars, formatVars, raceVars>>
    \/ ReturnDocuments /\ UNCHANGED <<indexVars, askVars, fetchVars, formatVars, raceVars>>

SpecChunker == ChunkInit /\ [][ChunkNext]_vars

\* build_chunks called and run to its return (the caller is not
\* interrupted), on the transcripts of up to MaxFairSegs segments.
FairTexts == { <<" ">>, <<" ", "a">>, <<"a", " ", "b">> }

\* chunker.py:15-19: the call, with its arguments
BuildChunksCalled ==
    /\ chunk_pc = "call"
    /\ \E n \in 0..MaxFairSegs : \E texts \in [1..n -> FairTexts] :
          segments' = SegmentsFor(texts, 7)
    /\ target_words' \in 0..MaxTarget
    /\ overlap_words' \in 0..MaxOverlap
    /\ chunk_pc' = "start"
    /\ UNCHANGED <<i, documents>>

ChunkFairStart ==
    /\ segments = <<>>
    /\ target_words = 0
    /\ overlap_words = 0
    /\ i = 0
    /\ documents = <<>>
    /\ chunk_pc = "call"

ChunkFairInit ==
    ChunkFairStart /\ IndexIdle /\ AskIdle /\ FetchIdle /\ FormatIdle /\ RaceIdle

ChunkFairNext ==
    \/ BuildChunksCalled /\ UNCHANGED <<indexVars, askVars, fetchVars, formatVars, raceVars>>
    \/ ReturnNoSegments /\ UNCHANGED <<indexVars, askVars, fetchVars, formatVars, raceVars>>
    \/ EnterLoop /\ UNCHANGED <<indexVars, askVars, fetchVars, formatVars, raceVars>>
    \/ ChunkPass /\ UNCHANGED <<indexVars, askVars, fetchVars, formatVars, raceVars>>
    \/ BreakEmptyChunk /\ UNCHANGED <<indexVars, askVars, fetchVars, formatVars, raceVars>>
    \/ ReturnDocuments /\ UNCHANGED <<indexVars, askVars, fetchVars, formatVars, raceVars>>

SpecChunkerFair == ChunkFairInit /\ [][ChunkFairNext]_vars /\ WF_vars(ChunkFairNext)

IndexInit == IndexIdle /\ ChunkIdle /\ AskIdle /\ FetchIdle /\ FormatIdle /\ RaceIdle

IndexNext ==
    \/ IndexEmptyBatch /\ UNCHANGED <<chunkVars, askVars, fetchVars, formatVars, raceVars>>
    \/ IndexStoreUnavailable /\ UNCHANGED <<chunkVars, askVars, fetchVars, formatVars, raceVars>>
    \/ IndexWithoutVideoIds /\ UNCHANGED <<chunkVars, askVars, fetchVars, formatVars, raceVars>>
    \/ IndexAllAlreadyIndexed /\ UNCHANGED <<chunkVars, askVars, fetchVars, formatVars, raceVars>>
    \/ IndexNewVideos /\ UNCHANGED <<chunkVars, askVars, fetchVars, formatVars, raceVars>>

SpecIndex == IndexInit /\ [][IndexNext]_vars

AskStart ==
    /\ openai_api_key \in ApiKeys
    /\ memory_store = NoMemory
    /\ appended = <<>>
    /\ ask_before = NoMemory
    /\ ask_last = NotCalled

AskInit == AskStart /\ ChunkIdle /\ IndexIdle /\ FetchIdle /\ FormatIdle /\ RaceIdle

AskNext ==
    \/ AskBlankQuestion /\ UNCHANGED <<chunkVars, indexVars, fetchVars, formatVars, raceVars>>
    \/ AskMissingApiKey /\ UNCHANGED <<chunkVars, indexVars, fetchVars, formatVars, raceVars>>
    \/ AskBuildFails /\ UNCHANGED <<chunkVars, indexVars, fetchVars, formatVars, raceVars>>
    \/ AskRetrievalFails /\ UNCHANGED <<chunkVars, indexVars, fetchVars, formatVars, raceVars>>
    \/ AskGenerationFails /\ UNCHANGED <<chunkVars, indexVars, fetchVars, formatVars, raceVars>>
    \/ AskAnswered /\ UNCHANGED <<chunkVars, indexVars, fetchVars, formatVars, raceVars>>

SpecAsk == AskInit /\ [][AskNext]_vars

FetchInit == FetchIdle /\ ChunkIdle /\ IndexIdle /\ AskIdle /\ FormatIdle /\ RaceIdle

FetchNext ==
    \/ FetchBadUrl /\ UNCHANGED <<chunkVars, indexVars, askVars, formatVars, raceVars>>
    \/ FetchCacheHit /\ UNCHANGED <<chunkVars, indexVars, askVars, formatVars, raceVars>>
    \/ FetchDownloadFails /\ UNCHANGED <<chunkVars, indexVars, askVars, formatVars, raceVars>>
    \/ FetchTranscriptionFails /\ UNCHANGED <<chunkVars, indexVars, askVars, formatVars, raceVars>>
    \/ FetchSaveFails /\ UNCHANGED <<chunkVars, indexVars, askVars, formatVars, raceVars>>
    \/ FetchSucceeds /\ UNCHANGED <<chunkVars, indexVars, askVars, formatVars, raceVars>>

SpecFetch == FetchInit /\ [][FetchNext]_vars

FormatStart ==
    /\ total_seconds \in (-MaxNegative)..MaxSeconds
    /\ timestamp = <<>>
    /\ format_pc = "start"

FormatInit == FormatStart /\ ChunkIdle /\ IndexIdle /\ AskIdle /\ FetchIdle /\ RaceIdle

FormatNext ==
    \/ FormatTimestampCall /\ UNCHANGED <<chunkVars, indexVars, askVars, fetchVars, raceVars>>

SpecFormat == FormatInit /\ [][FormatNext]_vars

RaceStart ==
    /\ race_memory = NoMemory
    /\ race_session \in [Threads -> SessionIds]
    /\ race_sid = [t \in Threads |-> <<>>]
    /\ race_pc = [t \in Threads |-> "invoke"]

RaceInit == RaceStart /\ ChunkIdle /\ IndexIdle /\ AskIdle /\ FetchIdle /\ FormatIdle

RaceNext ==
    \/ \E t \in Threads : RaceNormalise(t) /\ UNCHANGED <<chunkVars, indexVars, askVars, fetchVars, formatVars>>
    \/ \E t \in Threads : RaceCheck(t) /\ UNCHANGED <<chunkVars, indexVars, askVars, fetchVars, formatVars>>
    \/ \E t \in Threads : RaceCreate(t) /\ UNCHANGED <<chunkVars, indexVars, askVars, fetchVars, formatVars>>
    \/ \E t \in Threads : RaceAppend(t) /\ UNCHANGED <<chunkVars, indexVars, askVars, fetchVars, formatVars>>

SpecRace == RaceInit /\ [][RaceNext]_vars

(***************************************************************************)
(* Claims about build_chunks.                                              *)
(***************************************************************************)
NonBlankPositions(segs) == {k \in 1..Len(segs) : ~IsBlank(segs[k])}

\* C1 as stated: for every transcript whose segments list is non-empty,
\* build_chunks returns a non-empty sequence of chunks.
C1_NonEmptySegmentsGiveChunks ==
    (chunk_pc = "done" /\ segments # <<>>) => documents # <<>>

\* C1 amended: for every transcript with at least one segment whose trimmed
\* text is non-empty, and target_words >= 1, build_chunks returns a
\* non-empty sequence of chunks (any overlap_words >= 0).
C1_NonBlankSegmentGivesChunks ==
    (/\ chunk_pc = "done"
     /\ NonBlankPositions(segments) # {}
     /\ target_words >= 1) => documents # <<>>

\* C1 witness: a finished run on a transcript that starts with a blank
\* segment, has a non-blank one later, and produced chunks.
C1_Witness ==
    /\ chunk_pc = "done"
    /\ target_words >= 1
    /\ Len(segments) >= 2
    /\ IsBlank(segments[1])
    /\ NonBlankPositions(segments) # {}
    /\ documents # <<>>

IsPrefix(a, b) == Len(a) <= Len(b) /\ SubSeq(b, 1, Len(a)) = a

\* C2: every chunk's start_time is the start of the first segment that
\* contributes to it, truncated to whole seconds; that segment has non-blank
\* text and its text opens the chunk's page_content; the first chunk starts
\* at the first non-blank segment of the transcript.
C2_StartTimeOfFirstSegment ==
    /\ \A n \in 1..Len(documents) :
          LET d == documents[n]
              first == d.seg_idx[1] + 1
          IN  /\ \A k \in 1..Len(d.seg_idx) : d.seg_idx[k] + 1 >= first
              /\ first \in NonBlankPositions(segments)
              /\ d.start_time = TruncSeconds(segments[first].start)
              /\ IsPrefix(SegText(segments[first]), d.page_content)
    /\ documents # <<>> =>
          \A k \in NonBlankPositions(segments) : documents[1].seg_idx[1] + 1 <= k

\* C2 witness: a finished run with several chunks of several segments each,
\* the transcript opening with a blank segment and a later chunk starting
\* after second 0.
C2_Witness ==
    /\ chunk_pc = "done"
    /\ Len(documents) >= 2
    /\ IsBlank(segments[1])
    /\ Len(documents[1].seg_idx) >= 2
    /\ documents[2].start_time > documents[1].start_time
    /\ documents[1].start_time > 0

NumChunks(segs, t, o) == Len(BuildChunks(segs, t, o))

\* C3 as stated: for a fixed segment sequence and fixed overlap_words, every
\* smaller target_words gives at least as many chunks.
C3_SmallerTargetNeverFewerChunks ==
    chunk_pc = "done" =>
        \A t1 \in 0..(target_words - 1) :
            NumChunks(segments, t1, overlap_words) >= Len(documents)

\* The statement of C3 restricted to target_words >= 1 (it still fails: the
\* overlap step can make a larger target produce more chunks).
C3_SmallerPositiveTargetNeverFewerChunks ==
    chunk_pc = "done" =>
        \A t1 \in 1..(target_words - 1) :
            NumChunks(segments, t1, overlap_words) >= Len(documents)

\* C3 amended: with overlap_words = 0 and 1 <= t1 < t2, build_chunks with
\* target_words = t1 returns at least as many chunks as with target_words = t2.
C3_NoOverlapSmallerTargetNeverFewerChunks ==
    (chunk_pc = "done" /\ overlap_words = 0) =>
        \A t1 \in 1..(target_words - 1) :
            NumChunks(segments, t1, overlap_words) >= Len(documents)

\* C3 witness: a finished run without overlap that produced several chunks
\* and for which a smaller positive target gives strictly more chunks.
C3_Witness ==
    /\ chunk_pc = "done"
    /\ overlap_words = 0
    /\ Len(documents) >= 2
    /\ \E t1 \in 1..(target_words - 1) :
          NumChunks(segments, t1, overlap_words) > Len(documents)

\* C13: when every segment text is empty or whitespace-only, and when the
\* segments list is empty, build_chunks produces no chunk at any point and
\* returns the empty sequence, whatever target_words and overlap_words are.
C13_BlankSegmentsGiveNoChunks ==
    (\A k \in 1..Len(segments) : Strip(segments[k].text) = <<>>) =>
        /\ documents = <<>>
        /\ BuildChunks(segments, target_words, overlap_words) = <<>>
        /\ chunk_pc # "done" => ENABLED ChunkNext

\* C13 witness: a finished run with a positive target on several segments,
\* empty and whitespace-only ones among them, that returned no chunk.
C13_Witness ==
    /\ chunk_pc = "done"
    /\ target_words >= 1
    /\ Len(segments) >= 3
    /\ NonBlankPositions(segments) = {}
    /\ \E k \in 1..Len(segments) : segments[k].text = <<>>
    /\ \E k \in 1..Len(segments) : segments[k].text = <<" ">>
    /\ i = Len(segments)
    /\ documents = <<>>

\* The position in segments (from 1) of the k-th segment of document n.
SegAt(n, k) == documents[n].seg_idx[k] + 1

\* The backward offset the walk over document n stopped at.
WalkStop(n) == OverlapStart(segments, documents[n].seg_idx, overlap_words)

\* Whether document n + 1 begins where the walk over document n stopped: at
\* the segment of document n that the offset names or, when the walk took
\* no segment (the offset is the length of the chunk), at the first
\* non-blank segment after document n.
StartsAtWalkStop(n) ==
    LET cs == documents[n].seg_idx
        after == {p \in NonBlankPositions(segments) : p > SegAt(n, Len(cs))}
    IN  IF WalkStop(n) < Len(cs)
        THEN SegAt(n + 1, 1) = SegAt(n, WalkStop(n) + 1)
        ELSE SegAt(n + 1, 1) \in after /\ \A p \in after : SegAt(n + 1, 1) <= p

\* C15: for every pair of consecutive chunks where the backward walk over the
\* earlier chunk stops after its first segment (offset > 0), the later chunk
\* begins exactly at the segment where the walk stopped.
C15_NextChunkStartsAtWalkStop ==
    \A n \in 1..(Len(documents) - 1) : WalkStop(n) > 0 => StartsAtWalkStop(n)

\* What holds of C15: the same, when no blank segment follows the segment
\* where the walk stopped.
C15_NextChunkStartsAtWalkStopWithoutBlanks ==
    \A n \in 1..(Len(documents) - 1) :
        (/\ WalkStop(n) > 0
         /\ WalkStop(n) < Len(documents[n].seg_idx) =>
               \A p \in SegAt(n, WalkStop(n) + 1)..Len(segments) : ~IsBlank(segments[p])) =>
            StartsAtWalkStop(n)

ChunkStartsIncrease ==
    \A n \in 1..(Len(documents) - 1) : SegAt(n, 1) < SegAt(n + 1, 1)

\* C16 as stated: build_chunks terminates, each pass of the outer loop moves
\* the chunk start index forward by at least one segment, and each chunk
\* starts at a strictly later segment than the one before it.
C16_EveryPassMovesForward ==
    /\ <>(chunk_pc = "done")
    /\ [][(chunk_pc = "loop" /\ i < Len(segments)) => i' >= i + 1]_vars
    /\ []ChunkStartsIncrease

\* What holds of C16: build_chunks terminates for every target_words >= 0 and
\* overlap_words >= 0; each pass of the outer loop that closes a chunk moves
\* the chunk start index forward by at least one segment, and each chunk
\* starts at a strictly later segment than the one before it.
C16_ChunkPassesMoveForward ==
    /\ <>(chunk_pc = "done")
    /\ [][Len(documents') > Len(documents) => i' >= i + 1]_vars
    /\ []ChunkStartsIncrease

\* A case of it: a finished run with overlap_words >= target_words >= 1 that
\* produced at least three chunks, one of them of a single segment.
C16_Witness ==
    /\ chunk_pc = "done"
    /\ target_words >= 1
    /\ overlap_words >= target_words
    /\ Len(documents) >= 3
    /\ \E n \in 1..Len(documents) : Len(documents[n].seg_idx) = 1

\* Document n is a run of consecutive non-blank segments in input order.
IsRunOfNonBlank(n) ==
    LET cs == documents[n].seg_idx
    IN  /\ cs # <<>>
        /\ \A k \in 1..Len(cs) : SegAt(n, k) \in NonBlankPositions(segments)
        /\ \A k \in 1..(Len(cs) - 1) :
              /\ SegAt(n, k) < SegAt(n, k + 1)
              /\ \A p \in (SegAt(n, k) + 1)..(SegAt(n, k + 1) - 1) : IsBlank(segments[p])

Covered(p) ==
    \E n \in 1..Len(documents) : \E k \in 1..Len(documents[n].seg_idx) : SegAt(n, k) = p

\* C17: for every target_words >= 0 and overlap_words >= 0, each segment
\* whose trimmed text is non-empty is contained in at least one returned
\* chunk, each chunk is a run of consecutive non-blank segments in input
\* order, and blank segments appear in no chunk.
C17_NoTextLost ==
    /\ \A n \in 1..Len(documents) : IsRunOfNonBlank(n)
    /\ chunk_pc = "done" => \A p \in NonBlankPositions(segments) : Covered(p)

\* What holds of C17: the same for target_words >= 1.
C17_NoTextLostWithPositiveTarget ==
    /\ \A n \in 1..Len(documents) : IsRunOfNonBlank(n)
    /\ (chunk_pc = "done" /\ target_words >= 1) =>
          \A p \in NonBlankPositions(segments) : Covered(p)

\* The words of the segments at positions cs[1..m] (0-based) of segs.
RECURSIVE SumWords(_, _, _)
SumWords(segs, cs, m) ==
    IF m = 0 THEN 0
    ELSE SumWords(segs, cs, m - 1) + WordCount(Strip(segs[cs[m] + 1].text))

\* C18: the segments of a chunk other than its last total fewer than
\* target_words words; a chunk has fewer than target_words words in total
\* only if it ends at the last non-blank segment of the transcript; the
\* words of page_content are those of the chunk's segments.
C18_WordBudget ==
    \A n \in 1..Len(documents) :
        LET cs == documents[n].seg_idx
            total == SumWords(segments, cs, Len(cs))
        IN  /\ SumWords(segments, cs, Len(cs) - 1) < target_words
            /\ WordCount(documents[n].page_content) = total
            /\ total < target_words =>
                  \A p \in NonBlankPositions(segments) : p <= SegAt(n, Len(cs))

\* C18 witness: a finished run whose first chunk reaches the target with its
\* third segment, passing a blank segment on the way, and whose last chunk
\* stays under the target.
C18_Witness ==
    /\ chunk_pc = "done"
    /\ Len(documents) >= 2
    /\ LET cs == documents[1].seg_idx
       IN  /\ Len(cs) = 3
           /\ SegAt(1, 3) - SegAt(1, 1) > 2
           /\ SumWords(segments, cs, 3) >= target_words
    /\ LET cs == documents[Len(documents)].seg_idx
       IN  SumWords(segments, cs, Len(cs)) < target_words

(***************************************************************************)
(* Claims about index_documents.                                           *)
(***************************************************************************)
\* The video_id a document carries: doc.metadata.get("video_id", "").
VideoKey(d) == IF d.has_id THEN d.video_id ELSE <<>>

Indexed(st, key) == \E e \in DocUniverse : st[e] > 0 /\ VideoKey(e) = key

\* The last call returned, and no dedup lookup has failed in any call so far.
LookupsSucceeded == idx_outcome = "returned" /\ ~idx_ever_failed

\* C4: when the dedup lookups succeed, a call with chunks of an
\* already-indexed video_id (one that is not blank) adds no entry of that
\* video_id to the store.
C4_ReindexAddsNothing ==
    LookupsSucceeded =>
        \A d \in idx_batch :
            (Strip(VideoKey(d)) # <<>> /\ Indexed(idx_before, VideoKey(d))) =>
                \A e \in DocUniverse :
                    VideoKey(e) = VideoKey(d) => store[e] = idx_before[e]

\* What holds in place of C4: the same for a video_id that has no
\* surrounding whitespace.
C4_ReindexOfTrimmedIdAddsNothing ==
    LookupsSucceeded =>
        \A d \in idx_batch :
            (/\ VideoKey(d) # <<>>
             /\ Strip(VideoKey(d)) = VideoKey(d)
             /\ Indexed(idx_before, VideoKey(d))) =>
                \A e \in DocUniverse :
                    VideoKey(e) = VideoKey(d) => store[e] = idx_before[e]

\* C5: when the dedup lookups succeed, the store gains exactly the chunks of
\* the batch whose video_id (empty and missing ones included) was not in the
\* store before the call.
C5_GainsExactlyNewVideoChunks ==
    LookupsSucceeded =>
        \A d \in DocUniverse :
            store[d] = idx_before[d] +
                (IF d \in idx_batch /\ ~Indexed(idx_before, VideoKey(d)) THEN 1 ELSE 0)

\* C6: when a dedup lookup fails, every chunk of the batch is added. Stated
\* for batches whose chunks all carry a non-blank video_id, so that the fate
\* of chunks without one (C5) plays no part.
C6_LookupFailureWritesWholeBatch ==
    (/\ idx_outcome = "returned"
     /\ idx_failed
     /\ \A d \in idx_batch : Strip(VideoKey(d)) # <<>>) =>
        \A d \in idx_batch : store[d] = idx_before[d] + 1

(***************************************************************************)
(* Claims about ask and the conversation memory.                           *)
(***************************************************************************)
\* Whether the exchange e (an entry of appended) is among the lines of a
\* formatted history.
Appears(e, history) ==
    \E k \in 1..(Len(history) - 1) :
        history[k] = HumanLine(e.q) /\ history[k + 1] = AssistantLine(e.a)

SavedExchanges == {appended[n] : n \in 1..Len(appended)}

\* C7 as stated: for any two distinct session_id strings A and B, an
\* exchange appended under A never appears in the history read for B.
C7_DistinctIdsShareNothing ==
    \A e \in SavedExchanges : \A B \in SessionIds :
        B # e.session_id => ~Appears(e, GetHistory(memory_store, B))

\* C7 amended: for any two session_id strings A and B that differ after
\* normalisation (surrounding whitespace removed, a blank id read as
\* "default"), an exchange appended under A never appears in the history
\* read for B.
C7_DistinctSessionsShareNothing ==
    \A e \in SavedExchanges : \A B \in SessionIds :
        SessionKey(B) # SessionKey(e.session_id) =>
            ~Appears(e, GetHistory(memory_store, B))

\* C7 witness: two sessions both have history; an exchange saved under one
\* is read back under it and is absent from the other's history.
C7_Witness ==
    \E e \in SavedExchanges : \E B \in SessionIds :
        /\ SessionKey(B) # SessionKey(e.session_id)
        /\ Appears(e, GetHistory(memory_store, e.session_id))
        /\ GetHistory(memory_store, B) # <<>>
        /\ ~Appears(e, GetHistory(memory_store, B))

\* The exchanges saved under the session that session_id names, in order.
SavedUnder(session_id) ==
    SelectSeq(appended, LAMBDA e : SessionKey(e.session_id) = SessionKey(session_id))

\* C8: reading a session's history after n appends gives exactly the
\* min(n, 5) most recent exchanges, oldest first, as alternating Human and
\* Assistant lines; with no appends the history is empty.
C8_ReadGivesLastFive ==
    \A B \in SessionIds :
        LET own == SavedUnder(B)
            n == Len(own)
            m == Min(n, 5)
            history == GetHistory(memory_store, B)
        IN  /\ Len(history) = 2 * m
            /\ \A k \in 1..m :
                  /\ history[2 * k - 1] = HumanLine(own[n - m + k].q)
                  /\ history[2 * k] = AssistantLine(own[n - m + k].a)

\* C8 witness: a session with more than five appends whose read has ten
\* lines, while another session has never been appended to.
C8_Witness ==
    \E B \in SessionIds, C \in SessionIds :
        /\ Len(SavedUnder(B)) > 5
        /\ Len(GetHistory(memory_store, B)) = 10
        /\ Len(SavedUnder(C)) = 0
        /\ GetHistory(memory_store, C) = <<>>

NoEffect ==
    /\ ~ask_last.read_history
    /\ ~ask_last.opened_store
    /\ ~ask_last.queried
    /\ ~ask_last.generated
    /\ ~ask_last.saved
    /\ memory_store = ask_before

\* C9: for a blank or whitespace-only question ask returns the fixed
\* prompt-for-input string; for a non-blank question with no credential it
\* returns the fixed configuration-error string; in both cases it queries no
\* index, calls no language model and leaves the memory as it was.
C9_ShortCircuits ==
    ask_last.called =>
        /\ Strip(ask_last.question) = <<>> =>
              /\ ask_last.returned
              /\ ask_last.text = PleaseEnterAQuestion
              /\ NoEffect
        /\ (Strip(ask_last.question) # <<>> /\ Strip(openai_api_key) = <<>>) =>
              /\ ask_last.returned
              /\ ask_last.text = MissingApiKey
              /\ NoEffect

\* C9 witness: a whitespace-only question asked of a session that already
\* has saved exchanges.
C9_Witness ==
    /\ ask_last.called
    /\ ask_last.question = <<" ">>
    /\ ask_last.text = PleaseEnterAQuestion
    /\ appended # <<>>
    /\ GetHistory(memory_store, ask_last.session_id) # <<>>

\* C9 witness for the credential: a non-blank question with a blank key.
C9_WitnessNoKey ==
    /\ ask_last.called
    /\ Strip(ask_last.question) # <<>>
    /\ openai_api_key = <<" ">>
    /\ ask_last.text = MissingApiKey

\* C10: for a non-blank question with the credential configured, ask
\* returns a string whichever answering step fails; it never raises.
C10_AskNeverRaises ==
    (/\ ask_last.called
     /\ Strip(ask_last.question) # <<>>
     /\ Strip(openai_api_key) # <<>>) => ask_last.returned

\* What holds in place of C10: a failure of the retrieval query or of the
\* generation call is returned as a string.
C10_InvokeFailuresAreReturned ==
    (ask_last.called /\ ask_last.queried) => ask_last.returned

\* The exchanges stored under the session that session_id names.
Stored(mem, session_id) ==
    IF SessionKey(session_id) \in DOMAIN mem THEN mem[SessionKey(session_id)] ELSE <<>>

\* C11: each session's stored exchanges are exactly the (trimmed question,
\* answer) pairs of that session's answered asks, one per ask and in call
\* order; an ask that short-circuits or fails leaves the memory store as it
\* was; an answered ask adds its own exchange at the end of its session's
\* list, and the history it gave the model does not contain that exchange.
C11_OnlyAnsweredTurnsPersisted ==
    /\ DOMAIN memory_store \subseteq {SessionKey(B) : B \in SessionIds}
    /\ \A B \in SessionIds :
          LET own == SavedUnder(B)
          IN  /\ Stored(memory_store, B) = [k \in 1..Len(own) |-> <<own[k].q, own[k].a>>]
              /\ \A k \in 1..Len(own) : own[k].q = Strip(own[k].q) /\ own[k].q # <<>>
    /\ (ask_last.called /\ ~ask_last.saved) => memory_store = ask_before
    /\ ask_last.saved =>
          LET q == Strip(ask_last.question)
              a == ask_last.text
          IN  /\ ask_last.returned
              /\ appended # <<>>
              /\ appended[Len(appended)] = [session_id |-> ask_last.session_id, q |-> q, a |-> a]
              /\ Stored(memory_store, ask_last.session_id) =
                    Append(Stored(ask_before, ask_last.session_id), <<q, a>>)
              /\ \A k \in DOMAIN ask_before : memory_store[k] = ask_before[k]
                    \/ k = SessionKey(ask_last.session_id)
              /\ ~Appears([q |-> q, a |-> a], ask_last.chat_history)

\* C11 witness: two sessions have stored exchanges, the last ask was a
\* non-blank question to a session with history whose answering failed, and
\* the store is as it was before that ask.
C11_Witness ==
    /\ ask_last.called
    /\ ask_last.generated
    /\ ~ask_last.saved
    /\ ask_last.chat_history # <<>>
    /\ memory_store = ask_before
    /\ Len(appended) >= 3
    /\ \E B \in SessionIds, C \in SessionIds :
          /\ SessionKey(B) # SessionKey(C)
          /\ Len(Stored(memory_store, B)) >= 2
          /\ Len(Stored(memory_store, C)) >= 1

(***************************************************************************)
(* Claims about fetch_transcript.                                          *)
(***************************************************************************)
\* What holds of C12: a call for a video_id that an earlier call succeeded
\* for returns the cached record and invokes neither the title fetch, nor
\* the download, nor the transcription.
C12_HitAfterSuccess ==
    (fetch_last.called /\ fetch_last.had_succeeded) =>
        /\ fetch_last.outcome = "returned"
        /\ fetch_last.cache_before[fetch_last.video_id].file = "valid"
        /\ fetch_last.result = fetch_last.cache_before[fetch_last.video_id].record
        /\ ~fetch_last.title_fetched
        /\ ~fetch_last.downloaded
        /\ ~fetch_last.transcribed
        /\ cache = fetch_last.cache_before

\* The part of C12 about failed calls: a fetch_transcript call that raises
\* leaves the cache as it was.
C12_FailedFetchWritesNothing ==
    (fetch_last.called /\ fetch_last.outcome = "raised") => cache = fetch_last.cache_before

\* The part of C12 about the number of transcriptions: at most one per
\* video_id over all calls.
C12_TranscribedAtMostOnce == \A v \in FetchIds : transcriptions[v] <= 1

\* C12: once fetch_transcript has succeeded for a video_id, every later call
\* for it returns the cached record without title fetch, download or
\* transcription; transcription runs at most once per video_id; a failed
\* fetch writes nothing to the cache.
C12_CacheShortCircuits ==
    /\ C12_HitAfterSuccess
    /\ C12_TranscribedAtMostOnce
    /\ C12_FailedFetchWritesNothing

(***************************************************************************)
(* Claims about _format_timestamp.                                         *)
(***************************************************************************)
DigitValue(c) == CHOOSE d \in 0..9 : ToString(d) = c

IsDigit(c) == \E d \in 0..9 : ToString(d) = c

\* The number a run of digits denotes.
RECURSIVE NumberOf(_)
NumberOf(digits) ==
    IF digits = <<>> THEN 0
    ELSE 10 * NumberOf(SubSeq(digits, 1, Len(digits) - 1)) + DigitValue(digits[Len(digits)])

Colons(text) == {k \in 1..Len(text) : text[k] = ":"}

\* The fields of a rendered timestamp, split at its colons.
RECURSIVE Fields(_)
Fields(text) ==
    IF Colons(text) = {} THEN <<text>>
    ELSE LET k == CHOOSE c \in Colons(text) : \A d \in Colons(text) : c <= d
         IN  <<SubSeq(text, 1, k - 1)>> \o Fields(SubSeq(text, k + 1, Len(text)))

\* The seconds a rendered timestamp stands for.
SecondsOf(text) ==
    LET f == Fields(text)
    IN  IF Len(f) = 3
        THEN 3600 * NumberOf(f[1]) + 60 * NumberOf(f[2]) + NumberOf(f[3])
        ELSE 60 * NumberOf(f[1]) + NumberOf(f[2])

\* C14: with s' = max(0, s), _format_timestamp renders H:MM:SS (hours
\* unpadded, minutes and seconds two digits) when s' >= 3600 and MM:SS
\* otherwise, where H = s' div 3600, MM = (s' mod 3600) div 60 and
\* SS = s' mod 60; the result has no sign and converts back to s'.
C14_TimestampRendering ==
    format_pc = "done" =>
        LET s == IF total_seconds > 0 THEN total_seconds ELSE 0
            f == Fields(timestamp)
            n == Len(f)
        IN  /\ \A k \in 1..Len(timestamp) : IsDigit(timestamp[k]) \/ timestamp[k] = ":"
            /\ n = (IF s >= 3600 THEN 3 ELSE 2)
            /\ Len(f[n]) = 2 /\ NumberOf(f[n]) = s % 60
            /\ Len(f[n - 1]) = 2 /\ NumberOf(f[n - 1]) = (s % 3600) \div 60
            /\ n = 3 =>
                  /\ NumberOf(f[1]) = s \div 3600
                  /\ f[1][1] # "0"
            /\ SecondsOf(timestamp) = s

\* C14 witness: a negative argument rendered as 00:00.
C14_Witness ==
    /\ format_pc = "done"
    /\ total_seconds < 0
    /\ timestamp = <<"0", "0", ":", "0", "0">>

\* C14 witness with hours: 36061 seconds rendered as 10:01:01.
C14_WitnessHours ==
    /\ format_pc = "done"
    /\ total_seconds = 36061
    /\ timestamp = <<"1", "0", ":", "0", "1", ":", "0", "1">>

(***************************************************************************)
(* Claims about the conversation memory under concurrent use.              *)
(***************************************************************************)
AllReturned == \A t \in Threads : race_pc[t] = "returned"

InList(mem, key, exchange) ==
    key \in DOMAIN mem /\ \E k \in 1..Len(mem[key]) : mem[key][k] = exchange

\* What holds of C19: at every point of every interleaving, an exchange is
\* found in no list but its own session's.
C19_NoExchangeInAnotherSession ==
    \A t \in Threads : \A key \in DOMAIN race_memory :
        InList(race_memory, key, RaceExchange(t)) => key = SessionKey(race_session[t])

\* C19: once all calls have returned, every answered exchange is present in
\* its own session's list and in no other session's list.
C19_NoSavedExchangeLost ==
    AllReturned =>
        \A t \in Threads :
            /\ InList(race_memory, SessionKey(race_session[t]), RaceExchange(t))
            /\ \A key \in DOMAIN race_memory :
                  InList(race_memory, key, RaceExchange(t)) => key = SessionKey(race_session[t])
====
